---- MODULE Spec2Model ----
(***************************************************************************)
(* Host simulator of the ATmega serial endpoint: the named register table, *)
(* the pseudo-terminal bridge, the per-UART read/write callbacks and the   *)
(* configuration validator of sim/sim_regs.cpp, driven by firmware         *)
(* register accesses through the alias layer of sim/sim_regs.h.            *)
(***************************************************************************)
EXTENDS Integers, Sequences, FiniteSets, TLC

(***************************************************************************)
(* Bounds of the model (not program constants).                            *)
(***************************************************************************)
\* total number of bytes a behaviour moves: those passed to write_tx on a
\* validating channel plus those the external side sends
MaxTraffic == 3
\* bytes the pseudo-terminal holds for an external side that is not reading
PtyBufferSize == 1
\* override invocations a behaviour of a single register cell records
MaxCalls == 2
\* calls of platform_serial_write_byte a behaviour of the firmware makes
MaxWrites == 3
\* ptys a behaviour opens
MaxPtys == 3
\* frames of cell accesses a behaviour nests
MaxDepth == 4

(***************************************************************************)
(* Build constants (generated_serial_config.h is produced by the build;    *)
(* the values are those of the default board).                             *)
(***************************************************************************)
GENERATED_F_CPU == 16000000
SERIAL_BAUD == 9600
\* the one UART the firmware build configures and drives
SERIAL_UART_INDEX == 3
SERIAL_RX_PIN == 5
SERIAL_TX_PIN == 4
\* PORTMUX_USART3_ALT1_gc: route bits 7:6 of PORTMUX_USARTROUTEA
SERIAL_MUX_ORMASK == 64
SERIAL_MUX_ANDMASK == 63

\* status bits
USART_TXCIF_bm == 64
USART_DREIF_bm == 32
TXC == 6
UDRE == 5

\* the two register families, one of which a build selects
Series0 == "USART_0SERIES"
Classic == "USART_CLASSIC"
Families == {Series0, Classic}

\* of the channels 0..3 the constructor wires, those the model drives: the
\* build's UART and one more index of the same register table
Channels == {0, SERIAL_UART_INDEX}
\* byte values written and injected
Bytes == {65, 85}
\* values of rand() % 100 the model draws (both sides of the threshold)
RandDraws == {95, 96}
\* int r = rand() % 100: every value the draw can take
DrawModulus == 100
Draws == 0 .. (DrawModulus - 1)

(***************************************************************************)
(* 8-bit and 16-bit arithmetic (the bitwise operators act on uint8_t).     *)
(***************************************************************************)
Bit(v, k) == (v \div (2 ^ k)) % 2

BitAnd(a, b) ==
    Bit(a, 0) * Bit(b, 0) + 2 * Bit(a, 1) * Bit(b, 1) + 4 * Bit(a, 2) * Bit(b, 2)
    + 8 * Bit(a, 3) * Bit(b, 3) + 16 * Bit(a, 4) * Bit(b, 4) + 32 * Bit(a, 5) * Bit(b, 5)
    + 64 * Bit(a, 6) * Bit(b, 6) + 128 * Bit(a, 7) * Bit(b, 7)

BitOr(a, b) == (a % 256) + (b % 256) - BitAnd(a, b)

\* ~(uint8_t)m, as an 8-bit mask
Not8(m) == 255 - (m % 256)
U8(v) == v % 256
U16(v) == v % 65536

(***************************************************************************)
(* Register names (snprintf of the index into the family's pattern).       *)
(***************************************************************************)
USART_STATUS(idx) == <<"USART", idx, "_STATUS">>
USART_TXDATAL(idx) == <<"USART", idx, "_TXDATAL">>
USART_RXDATAL(idx) == <<"USART", idx, "_RXDATAL">>
USART_CTRLB(idx) == <<"USART", idx, "_CTRLB">>
USART_CTRLC(idx) == <<"USART", idx, "_CTRLC">>
USART_BAUD(idx) == <<"USART", idx, "_BAUD">>
UCSRA(idx) == <<"UCSR", idx, "A">>
UCSRB(idx) == <<"UCSR", idx, "B">>
UCSRC(idx) == <<"UCSR", idx, "C">>
UDR(idx) == <<"UDR", idx, "">>
UBRR(idx) == <<"UBRR", idx, "">>
\* PORT<SERIAL_RX_PORT>_DIR
PORT_DIR == <<"PORT", "B", "_DIR">>
PORTMUX_USARTROUTEA == <<"PORTMUX", "", "_USARTROUTEA">>
CLKCTRL_MCLKCTRLB == <<"CLKCTRL", "", "_MCLKCTRLB">>

\* the cells of the lazily filled tables that a build of family fam touches
Reg8Names(fam) ==
    IF fam = "USART_0SERIES"
    THEN UNION {{USART_STATUS(i), USART_TXDATAL(i), USART_RXDATAL(i), USART_CTRLB(i),
                 USART_CTRLC(i)} : i \in Channels}
         \cup {PORT_DIR, PORTMUX_USARTROUTEA, CLKCTRL_MCLKCTRLB}
    ELSE UNION {{UCSRA(i), UCSRB(i), UCSRC(i), UDR(i)} : i \in Channels} \cup {PORT_DIR}
Reg16Names(fam) ==
    IF fam = "USART_0SERIES" THEN {USART_BAUD(i) : i \in Channels}
    ELSE {UBRR(i) : i \in Channels}

VARIABLES
    family,      \* the build's register family (SERIAL_UART_TYPE_USART_0SERIES or not)
    master_fd,   \* Simulator::master_fd, -1 when the pty could not be created
    r8,          \* Simulator::_r8, the stored value (_val) of each Reg8
    r16,         \* Simulator::_r16, the stored value of each Reg16
    rxq,         \* bytes the external side sent that the master has not read
    txq,         \* bytes written to the master: what the external side receives
    injected,    \* history: every byte the external side sent, in order
    accepted,    \* history: every byte passed to write_tx while the channel validated
    tx_unread,   \* how many bytes of txq the external side has not read yet
    refused,     \* history: how many forwarded bytes the ::write call did not take
    validated_tx,\* history: the channels whose latest write_tx found them validating
    consumed,    \* history: what the read_rx calls returned that found a byte to take
    cell,        \* one Reg8 and one Reg16 object: _val, _read_cb, _write_cb
    shadow,      \* history: per cell, the value last written or raw_stored
    calls,       \* history: the arguments the write override was invoked with
    table,       \* a name table (_r8 / _r16): its nodes, their cells, and what was observed
    caller,      \* per thread: where it is in a reg8()/reg16() call, and its result
    ovr,         \* a cell's override pointers and _cb_mutex, and what happened to them
    disp,        \* per thread: where it is in a read, write or set_*_cb of that cell
    race,        \* per thread: where it is inside a callback, and its local value
    start,       \* history: the cells and the bridge when the first thread began
    fw,          \* the firmware inside platform_serial_write_byte, and the bytes it passed
    stack,       \* the cell accesses still to make, one frame per function being executed
    clk          \* the build's clock frequency and baud rate

\* the simulator proper, and the register-cell objects studied on their own
simvars == <<family, master_fd, r8, r16, rxq, txq, injected, accepted, tx_unread, refused,
             validated_tx, consumed>>
cellvars == <<cell, shadow, calls>>
tablevars == <<table, caller>>
dispvars == <<ovr, disp>>
racevars == <<race, start>>
fwvars == <<fw, stack, clk>>
aux == <<cellvars, tablevars, dispvars, racevars, fwvars>>
vars == <<simvars, aux>>

(***************************************************************************)
(* Configuration validator.                                                *)
(***************************************************************************)
\* faulty variant: the quotient rounded to nearest instead of truncated
ExpectedBaud0_Rounded ==
    U16((8 * GENERATED_F_CPU + SERIAL_BAUD) \div (2 * SERIAL_BAUD))

\* (uint16_t)((8UL * F_CPU) / (2UL * SERIAL_BAUD))
ExpectedBaud0 == U16((8 * GENERATED_F_CPU) \div (2 * SERIAL_BAUD))
\* (uint16_t)(F_CPU / (16 * SERIAL_BAUD)) - 1, stored in a uint16_t
ExpectedBaudClassic == U16(U16(GENERATED_F_CPU \div (16 * SERIAL_BAUD)) - 1 + 65536)

rx_pin_mask == U8(2 ^ SERIAL_RX_PIN)
tx_pin_mask == U8(2 ^ SERIAL_TX_PIN)

\* faulty variant: the 0-series checks without the clock pre-scaler check
ValidateReason0_NoClk(fam, R8, R16, idx) ==
    IF R16[USART_BAUD(idx)] # ExpectedBaud0 THEN "baud mismatch"
    ELSE IF BitAnd(R8[PORT_DIR], rx_pin_mask) # 0 THEN "RX pin not input (DDR bit set)"
    ELSE IF BitAnd(R8[PORT_DIR], tx_pin_mask) = 0 THEN "TX pin not output (DDR bit clear)"
    ELSE IF BitAnd(R8[PORTMUX_USARTROUTEA], Not8(SERIAL_MUX_ANDMASK)) # SERIAL_MUX_ORMASK
         THEN "portmux mismatch"
    ELSE IF BitAnd(R8[USART_CTRLB(idx)], 192) # 192 THEN "CTRLB TX/RX not enabled"
    ELSE IF BitAnd(R8[USART_CTRLB(idx)], 7) # 0 THEN "CTRLB mode not standard"
    ELSE IF R8[USART_CTRLC(idx)] # 3 THEN "CTRLC not 8N1"
    ELSE ""

\* the reason of the first failing check, "" when every check passes
ValidateReason0(fam, R8, R16, idx) ==
    IF R16[USART_BAUD(idx)] # ExpectedBaud0 THEN "baud mismatch"
    ELSE IF BitAnd(R8[PORT_DIR], rx_pin_mask) # 0 THEN "RX pin not input (DDR bit set)"
    ELSE IF BitAnd(R8[PORT_DIR], tx_pin_mask) = 0 THEN "TX pin not output (DDR bit clear)"
    ELSE IF BitAnd(R8[PORTMUX_USARTROUTEA], Not8(SERIAL_MUX_ANDMASK)) # SERIAL_MUX_ORMASK
         THEN "portmux mismatch"
    ELSE IF BitAnd(R8[USART_CTRLB(idx)], 192) # 192 THEN "CTRLB TX/RX not enabled"
    ELSE IF BitAnd(R8[USART_CTRLB(idx)], 7) # 0 THEN "CTRLB mode not standard"
    ELSE IF R8[USART_CTRLC(idx)] # 3 THEN "CTRLC not 8N1"
    ELSE IF R8[CLKCTRL_MCLKCTRLB] # 0 THEN "CLK prescaler non-zero"
    ELSE ""

ValidateReasonClassic(fam, R8, R16, idx) ==
    IF R16[UBRR(idx)] # ExpectedBaudClassic THEN "baud mismatch"
    ELSE IF BitAnd(R8[PORT_DIR], rx_pin_mask) # 0 THEN "RX pin not input (DDR bit set)"
    ELSE IF BitAnd(R8[PORT_DIR], tx_pin_mask) = 0 THEN "TX pin not output (DDR bit clear)"
    ELSE IF BitAnd(R8[UCSRA(idx)], 3) # 0 THEN "CTRLA invalid (speed/multi)"
    ELSE IF BitAnd(R8[UCSRB(idx)], 28) # 24 THEN "CTRLB RX/TX not enabled"
    ELSE IF R8[UCSRC(idx)] # 6 THEN "CTRLC not 8N1"
    ELSE ""

validate_configuration(fam, R8, R16, idx) ==
    IF fam = Series0 THEN ValidateReason0(fam, R8, R16, idx) = ""
    ELSE ValidateReasonClassic(fam, R8, R16, idx) = ""

\* validate(idx) on the current registers
Valid(idx) == validate_configuration(family, r8, r16, idx)

(***************************************************************************)
(* Constructor: init_pty succeeds or fails, default status bits.           *)
(***************************************************************************)
\* faulty variant: the constructor stores no default status bits
Reg8Default_Zero(name) == 0

Reg8Default(name) ==
    IF \E i \in Channels : name = USART_STATUS(i) THEN 96
    ELSE IF \E i \in Channels : name = UCSRA(i) THEN 32
    ELSE IF \E i \in Channels : name = UCSRC(i) THEN 6
    ELSE 0

SimInit ==
    /\ family \in Families
    /\ master_fd \in {-1, 3}
    /\ r8 = [n \in Reg8Names(family) |-> Reg8Default(n)]
    /\ r16 = [n \in Reg16Names(family) |-> 0]
    /\ rxq = <<>>
    /\ txq = <<>>
    /\ injected = <<>>
    /\ accepted = <<>>
    /\ tx_unread = 0
    /\ refused = 0
    /\ validated_tx = {}
    /\ consumed = <<>>

(***************************************************************************)
(* Terminal bridge primitives on the master descriptor.                    *)
(***************************************************************************)
\* ioctl(master_fd, FIONREAD, &n) with n preset to 0: an invalid fd leaves n at 0
FIONREAD(fd, q) == IF fd < 0 THEN 0 ELSE Len(q)

\* faulty variant: a write that does not depend on the descriptor
pty_write_ok_nofd(fd, n) == n < PtyBufferSize

\* ::write(master_fd, &b, 1) on the non-blocking master: fails with EBADF on an
\* invalid descriptor and with EAGAIN when n unread bytes fill the buffer
pty_write_ok(fd, n) == fd >= 0 /\ n < PtyBufferSize

\* faulty variant: the byte overtakes the bytes written before it
pty_write_front(fd, q, n, b) == IF pty_write_ok(fd, n) THEN <<b>> \o q ELSE q

\* the stream the external side sees after the call (its result is unused)
pty_write(fd, q, n, b) == IF pty_write_ok(fd, n) THEN Append(q, b) ELSE q

(***************************************************************************)
(* Callbacks of the wired cells.                                           *)
(***************************************************************************)
\* the status cell poll_pty_nonblocking names
PollName(fam, idx) == IF fam = Series0 THEN USART_STATUS(idx) ELSE UCSRA(idx)

\* the data-register-empty mask: USART_DREIF_bm, else (1 << UDRE)
DreMask(fam) == IF fam = Series0 THEN USART_DREIF_bm ELSE 2 ^ UDRE

\* the value or-ed in as "TXCIF": USART_TXCIF_bm, else (uint8_t)TXC
TxcOr(fam) == IF fam = Series0 THEN USART_TXCIF_bm ELSE TXC

\* faulty variant: receive-ready follows the bridge, cleared when it is empty
poll_pty_nonblocking_Tracks(fam, fd, q, R8, idx) ==
    IF fd < 0 THEN R8
    ELSE IF FIONREAD(fd, q) > 0
         THEN [R8 EXCEPT ![PollName(fam, idx)] = BitOr(@, 128)]
         ELSE [R8 EXCEPT ![PollName(fam, idx)] = BitAnd(@, Not8(128))]

\* faulty variant: receive-ready is set in the status cell of every channel
poll_pty_nonblocking_AllChannels(fam, fd, q, R8, idx) ==
    IF fd < 0 THEN R8
    ELSE IF FIONREAD(fd, q) > 0
         THEN [n \in DOMAIN R8 |->
                  IF \E j \in Channels : n = PollName(fam, j)
                  THEN BitOr(R8[n], 128) ELSE R8[n]]
         ELSE R8

poll_pty_nonblocking(fam, fd, q, R8, idx) ==
    IF fd < 0 THEN R8
    ELSE IF FIONREAD(fd, q) > 0
         THEN [R8 EXCEPT ![PollName(fam, idx)] = BitOr(@, 128)]
         ELSE R8

\* faulty variant: the byte is forwarded without consulting the validator
WriteCb_Unchecked(fam, fd, R8, R16, q, n, idx, b, dname, sname) ==
    LET R1 == [R8 EXCEPT ![dname] = b]
        R2 == [R1 EXCEPT ![sname] = BitAnd(@, Not8(DreMask(fam)))]
    IN [r8 |-> R2,
        txq |-> pty_write(fd, q, n, b),
        sent |-> pty_write_ok(fd, n),
        lost |-> ~pty_write_ok(fd, n)]

\* faulty variant: data-register-empty is cleared only for a forwarded byte
WriteCb_ClearsIfValid(fam, fd, R8, R16, q, n, idx, b, dname, sname) ==
    LET R1 == [R8 EXCEPT ![dname] = b]
        fwd == validate_configuration(fam, R1, R16, idx)
        R2 == IF fwd THEN [R1 EXCEPT ![sname] = BitAnd(@, Not8(DreMask(fam)))] ELSE R1
    IN [r8 |-> R2,
        txq |-> IF fwd THEN pty_write(fd, q, n, b) ELSE q,
        sent |-> fwd /\ pty_write_ok(fd, n),
        lost |-> fwd /\ ~pty_write_ok(fd, n)]

\* both write callbacks: store, clear DRE, forward when the channel validates
WriteCb(fam, fd, R8, R16, q, n, idx, b, dname, sname) ==
    LET R1 == [R8 EXCEPT ![dname] = b]
        R2 == [R1 EXCEPT ![sname] = BitAnd(@, Not8(DreMask(fam)))]
        fwd == validate_configuration(fam, R2, R16, idx)
    IN [r8 |-> R2,
        txq |-> IF fwd THEN pty_write(fd, q, n, b) ELSE q,
        sent |-> fwd /\ pty_write_ok(fd, n),
        lost |-> fwd /\ ~pty_write_ok(fd, n)]

txdatal_write_cb(fam, fd, R8, R16, q, n, idx, b) ==
    WriteCb(fam, fd, R8, R16, q, n, idx, b,
            IF fam = Series0 THEN USART_TXDATAL(idx) ELSE USART_RXDATAL(idx),
            USART_STATUS(idx))

udr_write_cb(fam, fd, R8, R16, q, n, idx, b) ==
    WriteCb(fam, fd, R8, R16, q, n, idx, b, UDR(idx), UCSRA(idx))

\* faulty variant: transmit-complete is raised, data-register-empty is not
CompletionEvent_NoDre(fam, R8, name) ==
    [R8 EXCEPT ![name] = BitOr(@, TxcOr(fam))]

\* the completion event of a status read: or in TXCIF, then DREIF
CompletionEvent(fam, R8, name) ==
    [R8 EXCEPT ![name] = BitOr(BitOr(@, TxcOr(fam)), DreMask(fam))]

\* faulty variant: the value to return is taken before the bridge is polled
StatusCb_PollLast(fam, fd, q, R8, R16, idx, r, name) ==
    LET R2 == IF validate_configuration(fam, R8, R16, idx)
                 /\ BitAnd(R8[name], DreMask(fam)) = 0
                 /\ r > 95
              THEN CompletionEvent(fam, R8, name)
              ELSE R8
    IN [r8 |-> poll_pty_nonblocking(fam, fd, q, R2, idx), ret |-> R2[name]]

\* faulty variant: the completion does not ask the validator
StatusCb_Unvalidated(fam, fd, q, R8, R16, idx, r, name) ==
    LET R1 == poll_pty_nonblocking(fam, fd, q, R8, idx)
        R2 == IF BitAnd(R1[name], DreMask(fam)) = 0 /\ r > 95
              THEN CompletionEvent(fam, R1, name)
              ELSE R1
    IN [r8 |-> R2, ret |-> R2[name]]

\* faulty variant: the comparison of the draw includes 95
StatusCb_FromNinetyFive(fam, fd, q, R8, R16, idx, r, name) ==
    LET R1 == poll_pty_nonblocking(fam, fd, q, R8, idx)
        R2 == IF validate_configuration(fam, R1, R16, idx)
                 /\ BitAnd(R1[name], DreMask(fam)) = 0
                 /\ r >= 95
              THEN CompletionEvent(fam, R1, name)
              ELSE R1
    IN [r8 |-> R2, ret |-> R2[name]]

\* both status callbacks: poll, then the random completion, then the raw value
StatusCb(fam, fd, q, R8, R16, idx, r, name) ==
    LET R1 == poll_pty_nonblocking(fam, fd, q, R8, idx)
        R2 == IF validate_configuration(fam, R1, R16, idx)
                 /\ BitAnd(R1[name], DreMask(fam)) = 0
                 /\ r > 95
              THEN CompletionEvent(fam, R1, name)
              ELSE R1
    IN [r8 |-> R2, ret |-> R2[name]]

status_read_cb(fam, fd, q, R8, R16, idx, r) ==
    StatusCb(fam, fd, q, R8, R16, idx, r, USART_STATUS(idx))

ucsra_read_cb(fam, fd, q, R8, R16, idx, r) ==
    StatusCb(fam, fd, q, R8, R16, idx, r, UCSRA(idx))

\* faulty variant: the byte is read but stays in the bridge
pty_read_peek(q) == [v |-> Head(q), rest |-> q]

\* ::read(master_fd, &v, 1) when FIONREAD reported a byte
pty_read(q) == [v |-> Head(q), rest |-> Tail(q)]

\* faulty variant: the bridge is not polled again after the byte was taken
ReadCb_NoRepoll(fam, fd, q, R8, R16, idx, dname, sname, stores) ==
    LET v0 == R8[dname] IN
    IF ~validate_configuration(fam, R8, R16, idx)
    THEN [r8 |-> R8, rxq |-> q, ret |-> v0]
    ELSE IF FIONREAD(fd, q) > 0
         THEN LET v == pty_read(q).v
                  q1 == pty_read(q).rest
                  R1 == IF stores THEN [R8 EXCEPT ![dname] = v] ELSE R8
                  R2 == [R1 EXCEPT ![sname] = BitAnd(@, Not8(128))]
              IN [r8 |-> R2, rxq |-> q1, ret |-> v]
         ELSE [r8 |-> R8, rxq |-> q, ret |-> v0]

\* faulty variant: a channel that fails validation still takes the byte
ReadCb_Unchecked(fam, fd, q, R8, R16, idx, dname, sname, stores) ==
    LET v0 == R8[dname] IN
    IF FIONREAD(fd, q) > 0
    THEN LET v == pty_read(q).v
             q1 == pty_read(q).rest
             R1 == IF stores THEN [R8 EXCEPT ![dname] = v] ELSE R8
             R2 == [R1 EXCEPT ![sname] = BitAnd(@, Not8(128))]
         IN [r8 |-> poll_pty_nonblocking(fam, fd, q1, R2, idx), rxq |-> q1, ret |-> v]
    ELSE [r8 |-> poll_pty_nonblocking(fam, fd, q, R8, idx), rxq |-> q, ret |-> v0]

\* both receive-data callbacks; `stores` is the 0-series write back of the byte
ReadCb(fam, fd, q, R8, R16, idx, dname, sname, stores) ==
    LET v0 == R8[dname] IN
    IF ~validate_configuration(fam, R8, R16, idx)
    THEN [r8 |-> R8, rxq |-> q, ret |-> v0]
    ELSE IF FIONREAD(fd, q) > 0
         THEN LET v == pty_read(q).v
                  q1 == pty_read(q).rest
                  R1 == IF stores THEN [R8 EXCEPT ![dname] = v] ELSE R8
                  R2 == [R1 EXCEPT ![sname] = BitAnd(@, Not8(128))]
              IN [r8 |-> poll_pty_nonblocking(fam, fd, q1, R2, idx), rxq |-> q1, ret |-> v]
         ELSE [r8 |-> poll_pty_nonblocking(fam, fd, q, R8, idx), rxq |-> q, ret |-> v0]

rxdatal_read_cb(fam, fd, q, R8, R16, idx) ==
    ReadCb(fam, fd, q, R8, R16, idx, USART_RXDATAL(idx), USART_STATUS(idx), fam = Series0)

udr_read_cb(fam, fd, q, R8, R16, idx) ==
    ReadCb(fam, fd, q, R8, R16, idx, UDR(idx), UCSRA(idx), FALSE)

(***************************************************************************)
(* The cells of a channel in the active family (platform.c's aliases).     *)
(***************************************************************************)
StatusCell(idx) == IF family = Series0 THEN USART_STATUS(idx) ELSE UCSRA(idx)
RxCell(idx) == IF family = Series0 THEN USART_RXDATAL(idx) ELSE UDR(idx)
TxCell(idx) == IF family = Series0 THEN USART_TXDATAL(idx) ELSE UDR(idx)
BaudCell(idx) == IF family = Series0 THEN USART_BAUD(idx) ELSE UBRR(idx)
CtrlBCell(idx) == IF family = Series0 THEN USART_CTRLB(idx) ELSE UCSRB(idx)
CtrlCCell(idx) == IF family = Series0 THEN USART_CTRLC(idx) ELSE UCSRC(idx)

RXC(v) == Bit(v, 7) = 1
DRE(v) == Bit(v, 5) = 1

\* what each firmware access of channel idx does in the current state
WriteTx(idx, b) ==
    IF family = Series0
    THEN txdatal_write_cb(family, master_fd, r8, r16, txq, tx_unread, idx, b)
    ELSE udr_write_cb(family, master_fd, r8, r16, txq, tx_unread, idx, b)

ReadStatus(idx, r) ==
    IF family = Series0
    THEN status_read_cb(family, master_fd, rxq, r8, r16, idx, r)
    ELSE ucsra_read_cb(family, master_fd, rxq, r8, r16, idx, r)

ReadRx(idx) ==
    IF family = Series0
    THEN rxdatal_read_cb(family, master_fd, rxq, r8, r16, idx)
    ELSE udr_read_cb(family, master_fd, rxq, r8, r16, idx)

(***************************************************************************)
(* The indexed facade (write_usart_tx, read_usart_status,                  *)
(* read_usart_rxdatal) of the simulator revision that has it.  It names    *)
(* the cells USART<idx>_..., whatever the family, and polls with the       *)
(* revision's own poll, which reads the bridge itself.                     *)
(***************************************************************************)
\* poll_pty_nonblocking(): ::read of up to 256 bytes; the first one goes into
\* every RXDATAL cell, 0x80 into every STATUS cell
poll_pty_read_all(fd, q, R8) ==
    IF fd < 0 \/ Len(q) = 0
    THEN [r8 |-> R8, rxq |-> q]
    ELSE [r8 |-> [n \in DOMAIN R8 |->
                    IF \E i \in Channels : n = USART_RXDATAL(i) THEN Head(q)
                    ELSE IF \E i \in Channels : n = USART_STATUS(i) THEN BitOr(R8[n], 128)
                    ELSE R8[n]],
          rxq |-> <<>>]

\* reg8("USART<idx>_TXDATAL") = b
write_usart_tx(idx, b) ==
    LET w == txdatal_write_cb(family, master_fd, r8, r16, txq, tx_unread, idx, b)
    IN [r8 |-> w.r8, txq |-> w.txq, rxq |-> rxq]

\* poll_pty_nonblocking(); return (uint8_t)reg8("USART<idx>_STATUS")
read_usart_status(idx, r) ==
    LET p == poll_pty_read_all(master_fd, rxq, r8)
        s == status_read_cb(family, master_fd, p.rxq, p.r8, r16, idx, r)
    IN [r8 |-> s.r8, rxq |-> p.rxq, ret |-> s.ret]

\* poll_pty_nonblocking(); v = raw(); raw_store(0); STATUS &= ~0x80; return v
read_usart_rxdatal(idx) ==
    LET p == poll_pty_read_all(master_fd, rxq, r8)
        R1 == [p.r8 EXCEPT ![USART_RXDATAL(idx)] = 0]
        R2 == [R1 EXCEPT ![USART_STATUS(idx)] = BitAnd(@, Not8(128))]
    IN [r8 |-> R2, rxq |-> p.rxq, ret |-> p.r8[USART_RXDATAL(idx)]]

(***************************************************************************)
(* Register cells (sim_types.h): Reg8 and Reg16 on their own.  An override *)
(* is a std::function; the model keeps which kind of closure is installed. *)
(***************************************************************************)
\* operands and stored values at the edges of each width
CellValues(w) == IF w = 8 THEN {0, 1, 128, 255} ELSE {0, 1, 255, 256, 65535}
ReadCbKinds == {"none", "complement"}
WriteCbKinds == {"none", "store", "drop"}

\* faulty variant: a constructor that leaves a set bit in the value
Reg_Uninit(w) == [width |-> w, val |-> 1, read_cb |-> "none", write_cb |-> "none"]

\* Reg8(name) / Reg16(name): _val(0), _read_cb(nullptr), _write_cb(nullptr)
Reg(w) == [width |-> w, val |-> 0, read_cb |-> "none", write_cb |-> "none"]

raw(c) == c.val

\* faulty variant: a store that keeps the low byte only
raw_store_low(c, v) == [c EXCEPT !.val = v % 256]

raw_store(c, v) == [c EXCEPT !.val = v % (2 ^ c.width)]
set_read_cb(c, k) == [c EXCEPT !.read_cb = k]
set_write_cb(c, k) == [c EXCEPT !.write_cb = k]

\* what the installed read closure returns: one that answers with the
\* complement of the stored value never agrees with the stored value
ReadCbCall(c) == (2 ^ c.width) - 1 - raw(c)

\* what the installed write closure does with its argument: one that
\* raw_stores it (as PORTA_DIR's does), one that stores nothing
WriteCbCall(c, v) == IF c.write_cb = "store" THEN raw_store(c, v) ELSE c

\* operator uint8_t() / operator uint16_t()
RegRead(c) == IF c.read_cb # "none" THEN ReadCbCall(c) ELSE raw(c)

\* faulty variant: the assignment stores v even when an override took it
RegAssign_AlsoStores(c, v) ==
    IF c.write_cb # "none"
    THEN [cell |-> raw_store(WriteCbCall(c, v), v), inv |-> <<v>>]
    ELSE [cell |-> raw_store(c, v), inv |-> <<>>]

\* operator=(v): the cell afterwards and the override invocations made
RegAssign(c, v) ==
    IF c.write_cb # "none"
    THEN [cell |-> WriteCbCall(c, v), inv |-> <<v>>]
    ELSE [cell |-> raw_store(c, v), inv |-> <<>>]

\* faulty variant: the old value is taken through the read path
RegOrAssign_FromRead(c, v) ==
    LET nw == BitOr(RegRead(c), v)
    IN  IF c.write_cb # "none"
        THEN [cell |-> WriteCbCall(c, nw), inv |-> <<nw>>]
        ELSE [cell |-> raw_store(c, nw), inv |-> <<>>]

\* Reg8::operator|=(v)
RegOrAssign(c, v) ==
    LET nw == BitOr(raw(c), v)
    IN  IF c.write_cb # "none"
        THEN [cell |-> WriteCbCall(c, nw), inv |-> <<nw>>]
        ELSE [cell |-> raw_store(c, nw), inv |-> <<>>]

\* Reg8::operator&=(v)
RegAndAssign(c, v) ==
    LET nw == BitAnd(raw(c), v)
    IN  IF c.write_cb # "none"
        THEN [cell |-> WriteCbCall(c, nw), inv |-> <<nw>>]
        ELSE [cell |-> raw_store(c, nw), inv |-> <<>>]

\* the value a read without override is due: v once v went into the cell
Stored(c, v, old) == IF c.write_cb = "drop" THEN old ELSE v

CellInit ==
    /\ cell \in {Reg(8), Reg(16)}
    /\ shadow = 0
    /\ calls = <<>>

CellApply(res, due) ==
    /\ Len(calls) + Len(res.inv) <= MaxCalls
    /\ cell' = res.cell
    /\ calls' = calls \o res.inv
    /\ shadow' = due
    /\ UNCHANGED <<simvars, tablevars, dispvars, racevars, fwvars>>

CellWrite(v) == CellApply(RegAssign(cell, v), Stored(cell, v, shadow))

CellOr(v) ==
    /\ cell.width = 8
    /\ CellApply(RegOrAssign(cell, v), Stored(cell, BitOr(shadow, v), shadow))

CellAnd(v) ==
    /\ cell.width = 8
    /\ CellApply(RegAndAssign(cell, v), Stored(cell, BitAnd(shadow, v), shadow))

CellRawStore(v) ==
    /\ cell' = raw_store(cell, v)
    /\ shadow' = v
    /\ UNCHANGED <<simvars, tablevars, dispvars, racevars, fwvars, calls>>

CellSetReadCb(k) ==
    /\ cell' = set_read_cb(cell, k)
    /\ UNCHANGED <<simvars, tablevars, dispvars, racevars, fwvars, shadow, calls>>

CellSetWriteCb(k) ==
    /\ cell' = set_write_cb(cell, k)
    /\ UNCHANGED <<simvars, tablevars, dispvars, racevars, fwvars, shadow, calls>>

CellNext ==
    \/ \E v \in CellValues(cell.width) : CellWrite(v)
    \/ \E v \in CellValues(cell.width) : CellOr(v)
    \/ \E v \in CellValues(cell.width) : CellAnd(v)
    \/ \E v \in CellValues(cell.width) : CellRawStore(v)
    \/ \E k \in ReadCbKinds : CellSetReadCb(k)
    \/ \E k \in WriteCbKinds : CellSetWriteCb(k)

\* the simulator left as constructed while something else is studied
SimIdle == SimInit /\ family = Series0 /\ master_fd = -1

CellIdle ==
    /\ cell = Reg(8)
    /\ shadow = 0
    /\ calls = <<>>

(***************************************************************************)
(* The name table (Simulator::reg8 / reg16 on _r8 / _r16), called from     *)
(* threads.  A std::unordered_map call is not atomic: emplace occupies an  *)
(* interval, and a find or a second emplace inside that interval is a data *)
(* race, whose outcome the language leaves open.                           *)
(***************************************************************************)
Threads == {1, 2}
\* names the constructor does not create
TableNames == {"GPIOR0", "GPIOR1"}
StoreValues == {255}
NoCell == <<"end()", 0>>
Garbage == <<"garbage", 0>>
NoValue == -1
\* the Reg object a thread's make_unique creates for a name
Node(n, t) == <<n, t>>
Nodes == {Node(n, t) : n \in TableNames, t \in Threads}

TableInit ==
    /\ table = [tab |-> [n \in TableNames |-> NoCell],
                cells |-> [x \in Nodes |-> NoValue],
                first |-> [n \in TableNames |-> NoCell],
                raced |-> FALSE]
    /\ caller = [t \in Threads |-> [pc |-> "idle", arg |-> "GPIOR0", ret |-> NoCell,
                                    dirty |-> FALSE]]

\* another thread is inside emplace
Emplacing(t) == {u \in Threads \ {t} : caller[u].pc = "emplacing"}
MarkDirty(us) == [u \in Threads |-> IF u \in us THEN [caller[u] EXCEPT !.dirty = TRUE]
                                    ELSE caller[u]]

\* _r8.find(name): the iterator; unspecified when the table is being modified
FindResults(t) ==
    IF Emplacing(t) = {}
    THEN {table.tab[caller[t].arg]}
    ELSE {table.tab[caller[t].arg], NoCell, Garbage}

\* the table after emplace(name, node) returned: the node goes in when the
\* name is absent; after a race the node may go in beside or instead of another
EmplaceResults(t) ==
    LET n == caller[t].arg
        normal == IF table.tab[n] = NoCell THEN [table.tab EXCEPT ![n] = Node(n, t)]
                  ELSE table.tab
    IN  IF caller[t].dirty
        THEN {normal, [table.tab EXCEPT ![n] = Node(n, t)], table.tab}
        ELSE {normal}

\* nobody else is in the middle of a call
Alone(t) == \A u \in Threads \ {t} : caller[u].pc \in {"idle", "done"}

\* a thread enters reg8(name)
Call(t, n) ==
    /\ caller[t].pc = "idle"
    /\ caller' = [caller EXCEPT ![t] = [pc |-> "find", arg |-> n, ret |-> NoCell,
                                        dirty |-> FALSE]]
    /\ UNCHANGED <<simvars, cellvars, dispvars, racevars, fwvars, table>>

\* auto it = _r8.find(name); if (it == _r8.end()) ...
Find(t) ==
    /\ caller[t].pc = "find"
    /\ \E it \in FindResults(t) :
          caller' = [MarkDirty(Emplacing(t)) EXCEPT
                        ![t].pc = IF it = NoCell THEN "emplace" ELSE "return",
                        ![t].ret = it]
    /\ table' = [table EXCEPT !.raced = @ \/ Emplacing(t) # {}]
    /\ UNCHANGED <<simvars, cellvars, dispvars, racevars, fwvars>>

\* std::make_unique<Reg8>(name), and emplace starts on the table
EmplaceBegin(t) ==
    /\ caller[t].pc = "emplace"
    /\ table' = [table EXCEPT !.cells[Node(caller[t].arg, t)] = raw(Reg(8)),
                              !.raced = @ \/ Emplacing(t) # {}]
    /\ caller' = [MarkDirty(Emplacing(t)) EXCEPT
                     ![t].pc = "emplacing", ![t].dirty = Emplacing(t) # {}]
    /\ UNCHANGED <<simvars, cellvars, dispvars, racevars, fwvars>>

\* emplace returns; a node that did not go in is destroyed with its cell
EmplaceEnd(t) ==
    /\ caller[t].pc = "emplacing"
    /\ \E tb \in EmplaceResults(t) :
          table' = [table EXCEPT
                      !.tab = tb,
                      !.cells[Node(caller[t].arg, t)] =
                          IF tb[caller[t].arg] = Node(caller[t].arg, t) THEN @ ELSE NoValue]
    /\ caller' = [caller EXCEPT ![t].pc = "refind"]
    /\ UNCHANGED <<simvars, cellvars, dispvars, racevars, fwvars>>

\* it = _r8.find(name) after the emplace
Refind(t) ==
    /\ caller[t].pc = "refind"
    /\ \E it \in FindResults(t) :
          caller' = [MarkDirty(Emplacing(t)) EXCEPT
                        ![t].pc = "return",
                        ![t].ret = IF it = NoCell THEN Garbage ELSE it]
    /\ table' = [table EXCEPT !.raced = @ \/ Emplacing(t) # {}]
    /\ UNCHANGED <<simvars, cellvars, dispvars, racevars, fwvars>>

\* return *it->second
Return(t) ==
    /\ caller[t].pc = "return"
    /\ caller' = [caller EXCEPT ![t].pc = "done"]
    /\ table' = [table EXCEPT !.first[caller[t].arg] =
                                 IF @ = NoCell THEN caller[t].ret ELSE @]
    /\ UNCHANGED <<simvars, cellvars, dispvars, racevars, fwvars>>

\* the caller stores through the reference it got
TableStore(t, v) ==
    /\ caller[t].pc = "done"
    /\ caller[t].ret \in Nodes
    /\ table.cells[caller[t].ret] # NoValue
    /\ table.cells[caller[t].ret] # v
    /\ table' = [table EXCEPT !.cells[caller[t].ret] = v]
    /\ UNCHANGED <<simvars, cellvars, dispvars, racevars, fwvars, caller>>

\* the caller drops the reference
Release(t) ==
    /\ caller[t].pc = "done"
    /\ caller' = [caller EXCEPT ![t].pc = "idle", ![t].ret = NoCell]
    /\ UNCHANGED <<simvars, cellvars, dispvars, racevars, fwvars, table>>

TableStep(t) ==
    \/ Find(t)
    \/ EmplaceBegin(t)
    \/ EmplaceEnd(t)
    \/ Refind(t)
    \/ Return(t)
    \/ \E v \in StoreValues : TableStore(t, v)
    \/ Release(t)

\* one caller at a time
TableNext ==
    \/ \E t \in Threads, n \in TableNames : Alone(t) /\ Call(t, n)
    \/ \E t \in Threads : TableStep(t)

\* callers on two threads, as they come
TableRaceNext ==
    \/ \E t \in Threads, n \in TableNames : Call(t, n)
    \/ \E t \in Threads : TableStep(t)

(***************************************************************************)
(* Override dispatch of one cell under threads (sim_types.h): which        *)
(* accesses of _read_cb / _write_cb are made under _cb_mutex.  Reg16 has   *)
(* no mutex.  A closure is "null" or one of two installed closures.        *)
(***************************************************************************)
Closures == {"null", "f", "g"}
NoThread == 0

DispInit ==
    /\ ovr \in [width : {8, 16}, read_cb : {"f"}, write_cb : {"f"}, lock : {NoThread},
                unlocked : {FALSE}, swapped : {FALSE}]
    /\ disp = [t \in Threads |-> [pc |-> "idle", cb |-> "null"]]

DispIdle ==
    /\ ovr = [width |-> 8, read_cb |-> "f", write_cb |-> "f", lock |-> NoThread,
              unlocked |-> FALSE, swapped |-> FALSE]
    /\ disp = [t \in Threads |-> [pc |-> "idle", cb |-> "null"]]

\* a thread touches an override pointer on the dispatch path
Access(t) == [ovr EXCEPT !.unlocked = @ \/ ovr.lock # t]
Goto(t, pc, cb) == [disp EXCEPT ![t] = [pc |-> pc, cb |-> cb]]
DispFrame == UNCHANGED <<simvars, cellvars, tablevars, racevars, fwvars>>

\* a thread starts a read, a write, or the installation of closure k
DStart(t, op, k) ==
    /\ disp[t].pc = "idle"
    /\ disp' = Goto(t, CASE op = "read" -> IF ovr.width = 8 THEN "r_lock" ELSE "r16_test"
                         [] op = "write" -> "w_test"
                         [] op = "set_read_cb" -> IF ovr.width = 8 THEN "sr_lock"
                                                  ELSE "sr_assign"
                         [] op = "set_write_cb" -> "sw_assign", k)
    /\ UNCHANGED ovr
    /\ DispFrame

\* std::lock_guard<std::mutex> lk(_cb_mutex), in operator uint8_t and set_read_cb
DLock(t) ==
    /\ disp[t].pc \in {"r_lock", "sr_lock"}
    /\ ovr.lock = NoThread
    /\ ovr' = [ovr EXCEPT !.lock = t]
    /\ disp' = Goto(t, IF disp[t].pc = "r_lock" THEN "r_copy" ELSE "sr_assign", disp[t].cb)
    /\ DispFrame

\* cb = _read_cb; and the guard's scope ends
DReadCopy(t) ==
    /\ disp[t].pc = "r_copy"
    /\ ovr' = [Access(t) EXCEPT !.lock = NoThread]
    /\ disp' = Goto(t, "r_call", ovr.read_cb)
    /\ DispFrame

\* if (cb) return cb(); return _val.load();  on the local copy
DReadCall(t) ==
    /\ disp[t].pc = "r_call"
    /\ disp' = Goto(t, "idle", "null")
    /\ UNCHANGED ovr
    /\ DispFrame

\* Reg16: if (_read_cb) ...
DRead16Test(t) ==
    /\ disp[t].pc = "r16_test"
    /\ ovr' = Access(t)
    /\ disp' = IF ovr.read_cb # "null" THEN Goto(t, "r16_call", ovr.read_cb)
               ELSE Goto(t, "idle", "null")
    /\ DispFrame

\* Reg16: ... return _read_cb();  on the member
DRead16Call(t) ==
    /\ disp[t].pc = "r16_call"
    /\ ovr' = [Access(t) EXCEPT !.swapped = @ \/ ovr.read_cb # disp[t].cb]
    /\ disp' = Goto(t, "idle", "null")
    /\ DispFrame

\* if (_write_cb) ...   (operator=, |=, &= of Reg8; operator= of Reg16)
DWriteTest(t) ==
    /\ disp[t].pc = "w_test"
    /\ ovr' = Access(t)
    /\ disp' = IF ovr.write_cb # "null" THEN Goto(t, "w_call", ovr.write_cb)
               ELSE Goto(t, "idle", "null")
    /\ DispFrame

\* ... _write_cb(v);  on the member
DWriteCall(t) ==
    /\ disp[t].pc = "w_call"
    /\ ovr' = [Access(t) EXCEPT !.swapped = @ \/ ovr.write_cb # disp[t].cb]
    /\ disp' = Goto(t, "idle", "null")
    /\ DispFrame

\* _read_cb = cb;  in set_read_cb (Reg8: under the guard, whose scope then ends)
DSetRead(t) ==
    /\ disp[t].pc = "sr_assign"
    /\ ovr' = [ovr EXCEPT !.read_cb = disp[t].cb,
                          !.lock = IF @ = t THEN NoThread ELSE @]
    /\ disp' = Goto(t, "idle", "null")
    /\ DispFrame

\* _write_cb = cb;  in set_write_cb
DSetWrite(t) ==
    /\ disp[t].pc = "sw_assign"
    /\ ovr' = [ovr EXCEPT !.write_cb = disp[t].cb]
    /\ disp' = Goto(t, "idle", "null")
    /\ DispFrame

DispNext ==
    \/ \E t \in Threads, k \in Closures :
          \E op \in {"set_read_cb", "set_write_cb"} : DStart(t, op, k)
    \/ \E t \in Threads : \E op \in {"read", "write"} : DStart(t, op, "null")
    \/ \E t \in Threads : DLock(t)
    \/ \E t \in Threads : DReadCopy(t)
    \/ \E t \in Threads : DReadCall(t)
    \/ \E t \in Threads : DRead16Test(t)
    \/ \E t \in Threads : DRead16Call(t)
    \/ \E t \in Threads : DWriteTest(t)
    \/ \E t \in Threads : DWriteCall(t)
    \/ \E t \in Threads : DSetRead(t)
    \/ \E t \in Threads : DSetWrite(t)

\* no thread is inside a callback
NotStarted == [taken |-> FALSE, r8 |-> <<>>, txq |-> <<>>, tx_unread |-> 0]
RaceIdle ==
    /\ race = [t \in Threads |-> [pc |-> "start", tmp |-> 0, b |-> 0, r |-> 0, ret |-> 0]]
    /\ start = NotStarted

\* the firmware is not in a serial call
FwIdle == fw = [pc |-> "idle", b |-> 0, sent |-> <<>>]

\* no cell access is being executed
CallIdle == stack = <<>>

\* the build is the default board's
ClkIdle == clk = [f |-> GENERATED_F_CPU, baud |-> SERIAL_BAUD]

AuxIdle == CellIdle /\ TableInit /\ DispIdle /\ RaceIdle /\ FwIdle /\ CallIdle /\ ClkIdle

\* the objects studied one at a time, the others left as constructed
CellSpecInit == SimIdle /\ CellInit /\ TableInit /\ DispIdle /\ RaceIdle /\ FwIdle /\ CallIdle /\ ClkIdle
CellSpec == CellSpecInit /\ [][CellNext]_vars
TableSpecInit == SimIdle /\ CellIdle /\ TableInit /\ DispIdle /\ RaceIdle /\ FwIdle /\ CallIdle /\ ClkIdle
TableSpec == TableSpecInit /\ [][TableNext]_vars
TableRaceSpec == TableSpecInit /\ [][TableRaceNext]_vars
DispSpecInit == SimIdle /\ CellIdle /\ TableInit /\ DispInit /\ RaceIdle /\ FwIdle /\ CallIdle /\ ClkIdle
DispSpec == DispSpecInit /\ [][DispNext]_vars

Init == SimInit /\ AuxIdle

(***************************************************************************)
(* Operations.                                                             *)
(***************************************************************************)
\* the firmware writes byte b to the transmit-data cell of channel idx
write_tx(idx, b) ==
    /\ Len(accepted) + Len(injected) < MaxTraffic
    /\ LET res == WriteTx(idx, b)
       IN /\ r8' = res.r8
          /\ txq' = res.txq
          /\ tx_unread' = IF res.sent THEN tx_unread + 1 ELSE tx_unread
          /\ refused' = IF res.lost THEN refused + 1 ELSE refused
    /\ accepted' = IF Valid(idx) THEN Append(accepted, b) ELSE accepted
    /\ validated_tx' = IF Valid(idx) THEN validated_tx \cup {idx} ELSE validated_tx \ {idx}
    /\ UNCHANGED <<aux, family, master_fd, r16, rxq, injected, consumed>>

\* the firmware reads the status cell of channel idx; r is rand() % 100
read_status(idx, r) ==
    /\ r8' = ReadStatus(idx, r).r8
    /\ UNCHANGED <<aux, family, master_fd, r16, rxq, txq, injected, accepted, tx_unread,
                   refused, validated_tx, consumed>>

\* the firmware reads the receive-data cell of channel idx
read_rx(idx) ==
    /\ LET res == ReadRx(idx)
       IN /\ r8' = res.r8
          /\ rxq' = res.rxq
          /\ consumed' = IF Valid(idx) /\ FIONREAD(master_fd, rxq) > 0
                          THEN Append(consumed, res.ret)
                          ELSE consumed
    /\ UNCHANGED <<aux, family, master_fd, r16, txq, injected, accepted, tx_unread, refused,
                   validated_tx>>

\* the external side writes byte b to the slave device
ExternalSend(b) ==
    /\ master_fd >= 0
    /\ Len(accepted) + Len(injected) < MaxTraffic
    /\ rxq' = Append(rxq, b)
    /\ injected' = Append(injected, b)
    /\ UNCHANGED <<aux, family, master_fd, r8, r16, txq, accepted, tx_unread, refused,
                   validated_tx, consumed>>

\* the external side reads one byte from the slave device
ExternalReceive ==
    /\ tx_unread > 0
    /\ tx_unread' = tx_unread - 1
    /\ UNCHANGED <<aux, family, master_fd, r8, r16, rxq, txq, injected, accepted, refused,
                   validated_tx, consumed>>

\* Reg8::operator= on a cell without a write callback
Reg8Assign(R8, name, v) == [R8 EXCEPT ![name] = U8(v)]
\* Reg8::operator|= and operator&= on a cell without a write callback
Reg8OrAssign(R8, name, v) == [R8 EXCEPT ![name] = BitOr(@, U8(v))]
Reg8AndAssign(R8, name, v) == [R8 EXCEPT ![name] = BitAnd(@, U8(v))]

\* faulty variant: the pin directions are left as they are
PlatformInit8_NoPinDirection(R8) ==
    LET A == IF family = Series0
             THEN Reg8Assign(R8, CLKCTRL_MCLKCTRLB, 0)
             ELSE R8
        B == IF family = Series0
             THEN Reg8Assign(A, PORTMUX_USARTROUTEA,
                      BitOr(BitAnd(A[PORTMUX_USARTROUTEA], SERIAL_MUX_ANDMASK),
                            SERIAL_MUX_ORMASK))
             ELSE A
        E == Reg8Assign(B, CtrlCCell(SERIAL_UART_INDEX), IF family = Series0 THEN 3 ELSE 6)
    IN  Reg8Assign(E, CtrlBCell(SERIAL_UART_INDEX), IF family = Series0 THEN 192 ELSE 24)

\* the 8-bit cells after platform_init's writes, for UART SERIAL_UART_INDEX
PlatformInit8(R8) ==
    LET A == IF family = Series0
             THEN Reg8Assign(R8, CLKCTRL_MCLKCTRLB, 0)
             ELSE R8
        B == IF family = Series0
             THEN Reg8Assign(A, PORTMUX_USARTROUTEA,
                      BitOr(BitAnd(A[PORTMUX_USARTROUTEA], SERIAL_MUX_ANDMASK),
                            SERIAL_MUX_ORMASK))
             ELSE A
        C == Reg8OrAssign(B, PORT_DIR, 2 ^ SERIAL_TX_PIN)
        D == Reg8AndAssign(C, PORT_DIR, Not8(2 ^ SERIAL_RX_PIN))
        E == Reg8Assign(D, CtrlCCell(SERIAL_UART_INDEX), IF family = Series0 THEN 3 ELSE 6)
    IN  Reg8Assign(E, CtrlBCell(SERIAL_UART_INDEX), IF family = Series0 THEN 192 ELSE 24)

\* the baud cell after platform_init's write
PlatformInit16(R16) ==
    [R16 EXCEPT ![BaudCell(SERIAL_UART_INDEX)] =
        IF family = Series0
        THEN U16((8 * GENERATED_F_CPU) \div (2 * SERIAL_BAUD))
        ELSE U16((GENERATED_F_CPU \div (16 * SERIAL_BAUD)) - 1 + 65536)]

\* the firmware's platform_init, on the cells of UART SERIAL_UART_INDEX
platform_init ==
    /\ r8' = PlatformInit8(r8)
    /\ r16' = PlatformInit16(r16)
    /\ <<r8', r16'>> # <<r8, r16>>
    /\ UNCHANGED <<aux, family, master_fd, rxq, txq, injected, accepted, tx_unread, refused,
                   validated_tx, consumed>>

\* the firmware assigns v to a plain 8-bit cell
FirmwareWrite8(name, v) ==
    /\ r8' = Reg8Assign(r8, name, v)
    /\ r8' # r8
    /\ UNCHANGED <<aux, family, master_fd, r16, rxq, txq, injected, accepted, tx_unread,
                   refused, validated_tx, consumed>>

\* the firmware assigns v to a 16-bit cell
FirmwareWrite16(name, v) ==
    /\ r16' = [r16 EXCEPT ![name] = U16(v)]
    /\ r16' # r16
    /\ UNCHANGED <<aux, family, master_fd, r8, rxq, txq, injected, accepted, tx_unread,
                   refused, validated_tx, consumed>>

\* register writes the firmware makes besides platform_init
RxPinLeftOutput == BitOr(2 ^ SERIAL_TX_PIN, 2 ^ SERIAL_RX_PIN)
Writes8 ==
    {<<PORT_DIR, RxPinLeftOutput>>}

Next ==
    \/ \E i \in Channels, b \in Bytes : write_tx(i, b)
    \/ \E i \in Channels, r \in RandDraws : read_status(i, r)
    \/ \E i \in Channels : read_rx(i)
    \/ \E b \in Bytes : ExternalSend(b)
    \/ ExternalReceive
    \/ platform_init
    \/ \E w \in Writes8 : FirmwareWrite8(w[1], w[2])

Spec == Init /\ [][Next]_vars

(***************************************************************************)
(* Transmit side under fairness of the completion draw: the firmware polls *)
(* the status cell again and again and rand() returns every residue again  *)
(* and again, so a poll that can complete a transmission is not missed     *)
(* forever.                                                                *)
(***************************************************************************)
CompletingDraw == CHOOSE r \in RandDraws : r > 95

NextLive ==
    \/ \E i \in Channels, b \in Bytes : write_tx(i, b)
    \/ \E i \in Channels, r \in RandDraws : read_status(i, r)
    \/ ExternalReceive
    \/ platform_init
    \/ \E w \in Writes8 : FirmwareWrite8(w[1], w[2])

LiveSpec ==
    /\ Init
    /\ [][NextLive]_vars
    /\ \A i \in Channels : SF_vars(read_status(i, CompletingDraw))

(***************************************************************************)
(* The validator over configurations the firmware can write: every cell a  *)
(* check reads takes its expected value and values that fail that check.   *)
(***************************************************************************)
ConfigValues8 ==
    IF family = Series0
    THEN {<<PORT_DIR, v>> : v \in {0, 16, 48}}
         \cup {<<PORTMUX_USARTROUTEA, v>> : v \in {0, 64, 192}}
         \cup {<<CLKCTRL_MCLKCTRLB, v>> : v \in {0, 1}}
         \cup {<<USART_CTRLB(i), v>> : i \in Channels, v \in {0, 192, 193}}
         \cup {<<USART_CTRLC(i), v>> : i \in Channels, v \in {0, 3}}
    ELSE {<<PORT_DIR, v>> : v \in {0, 16, 48}}
         \cup {<<UCSRA(i), v>> : i \in Channels, v \in {32, 33}}
         \cup {<<UCSRB(i), v>> : i \in Channels, v \in {0, 24, 28}}
         \cup {<<UCSRC(i), v>> : i \in Channels, v \in {0, 6}}

ConfigValues16 ==
    IF family = Series0
    THEN {<<USART_BAUD(i), v>> : i \in Channels, v \in {0, 6666, 6667}}
    ELSE {<<UBRR(i), v>> : i \in Channels, v \in {0, 103, 104}}

NextValidate ==
    \/ \E w \in ConfigValues8 : FirmwareWrite8(w[1], w[2])
    \/ \E w \in ConfigValues16 : FirmwareWrite16(w[1], w[2])
    \/ write_tx(SERIAL_UART_INDEX, 65)

ValidateSpec == Init /\ [][NextValidate]_vars

(***************************************************************************)
(* Two threads inside the callbacks of one channel: thread Writer in the   *)
(* transmit-data write, thread Poller in the status read.  Each            *)
(* raw_store(raw() op mask) is a load and a store of the atomic _val.      *)
(***************************************************************************)
Writer == 1
Poller == 2
RaceCh == SERIAL_UART_INDEX
At(t, pc) == race[t].pc = pc
Step(t, pc, tmp) == [race EXCEPT ![t].pc = pc, ![t].tmp = tmp]
Snapshot == IF start.taken THEN start
            ELSE [taken |-> TRUE, r8 |-> r8, txq |-> txq, tx_unread |-> tx_unread]
RaceFrame == UNCHANGED <<family, master_fd, r16, rxq, injected, accepted, refused,
                         validated_tx, consumed, cellvars, tablevars, dispvars, fwvars>>

\* the firmware and the external side act before the threads begin
RaceSetup ==
    /\ ~start.taken
    /\ \/ platform_init
       \/ \E b \in Bytes : ExternalSend(b)

\* the write callback is entered with byte b: reg8(txname).raw_store(b)
WBegin(b) ==
    /\ At(Writer, "start")
    /\ r8' = [r8 EXCEPT ![TxCell(RaceCh)] = b]
    /\ race' = [Step(Writer, "w_load", 0) EXCEPT ![Writer].b = b]
    /\ start' = Snapshot
    /\ UNCHANGED <<txq, tx_unread>>
    /\ RaceFrame

\* reg8(sname).raw()
WLoad ==
    /\ At(Writer, "w_load")
    /\ race' = Step(Writer, "w_store", r8[StatusCell(RaceCh)])
    /\ UNCHANGED <<r8, txq, tx_unread, start>>
    /\ RaceFrame

\* reg8(sname).raw_store(... & ~DREIF)
WStore ==
    /\ At(Writer, "w_store")
    /\ r8' = [r8 EXCEPT ![StatusCell(RaceCh)] =
                 BitAnd(race[Writer].tmp, Not8(DreMask(family)))]
    /\ race' = Step(Writer, "w_fwd", 0)
    /\ UNCHANGED <<txq, tx_unread, start>>
    /\ RaceFrame

\* if (validate_configuration(idx)) ::write(master_fd, &b, 1)
WForward ==
    /\ At(Writer, "w_fwd")
    /\ LET fwd == Valid(RaceCh) IN
          /\ txq' = IF fwd THEN pty_write(master_fd, txq, tx_unread, race[Writer].b)
                    ELSE txq
          /\ tx_unread' = IF fwd /\ pty_write_ok(master_fd, tx_unread)
                          THEN tx_unread + 1 ELSE tx_unread
    /\ race' = Step(Writer, "done", 0)
    /\ UNCHANGED <<r8, start>>
    /\ RaceFrame

\* the status callback is entered, rand() % 100 will give r; the poll's
\* FIONREAD decides whether receive-ready is to be set
PBegin(r) ==
    /\ At(Poller, "start")
    /\ race' = [Step(Poller, IF FIONREAD(master_fd, rxq) > 0 THEN "p_load" ELSE "s_check", 0)
                   EXCEPT ![Poller].r = r]
    /\ start' = Snapshot
    /\ UNCHANGED <<r8, txq, tx_unread>>
    /\ RaceFrame

\* reg8(name).raw(), of raw_store(raw() | 0x80) and of the two completion stores
PLoad ==
    /\ race[Poller].pc \in {"p_load", "c1_load", "c2_load"}
    /\ race' = Step(Poller, CASE At(Poller, "p_load") -> "p_store"
                              [] At(Poller, "c1_load") -> "c1_store"
                              [] At(Poller, "c2_load") -> "c2_store",
                    r8[StatusCell(RaceCh)])
    /\ UNCHANGED <<r8, txq, tx_unread, start>>
    /\ RaceFrame

\* reg8(name).raw_store(... | 0x80), | TXCIF, | DREIF
PStore ==
    /\ race[Poller].pc \in {"p_store", "c1_store", "c2_store"}
    /\ r8' = [r8 EXCEPT ![StatusCell(RaceCh)] =
                 BitOr(race[Poller].tmp,
                       CASE At(Poller, "p_store") -> 128
                         [] At(Poller, "c1_store") -> TxcOr(family)
                         [] At(Poller, "c2_store") -> DreMask(family))]
    /\ race' = Step(Poller, CASE At(Poller, "p_store") -> "s_check"
                              [] At(Poller, "c1_store") -> "c2_load"
                              [] At(Poller, "c2_store") -> "s_ret", 0)
    /\ UNCHANGED <<txq, tx_unread, start>>
    /\ RaceFrame

\* if (validate_configuration(idx)) { status = raw() & DREIF; if (!status) { r > 95 ...
PCheck ==
    /\ At(Poller, "s_check")
    /\ race' = Step(Poller,
                    IF /\ Valid(RaceCh)
                       /\ BitAnd(r8[StatusCell(RaceCh)], DreMask(family)) = 0
                       /\ race[Poller].r > 95
                    THEN "c1_load" ELSE "s_ret", 0)
    /\ UNCHANGED <<r8, txq, tx_unread, start>>
    /\ RaceFrame

\* uint8_t status = reg8(name).raw(); return status;
PReturn ==
    /\ At(Poller, "s_ret")
    /\ race' = [Step(Poller, "done", 0) EXCEPT ![Poller].ret = r8[StatusCell(RaceCh)]]
    /\ UNCHANGED <<r8, txq, tx_unread, start>>
    /\ RaceFrame

RaceNext ==
    \/ RaceSetup
    \/ \E b \in Bytes : WBegin(b)
    \/ WLoad
    \/ WStore
    \/ WForward
    \/ \E r \in RandDraws : PBegin(r)
    \/ PLoad
    \/ PStore
    \/ PCheck
    \/ PReturn

RaceSpec == Init /\ [][RaceNext]_vars

\* the two orders in which the callbacks can run one after the other, from the
\* cells and bridge of `start`: the final status cell and the value returned
WriteThenPoll ==
    LET w == IF family = Series0
             THEN txdatal_write_cb(family, master_fd, start.r8, r16, start.txq,
                                   start.tx_unread, RaceCh, race[Writer].b)
             ELSE udr_write_cb(family, master_fd, start.r8, r16, start.txq,
                               start.tx_unread, RaceCh, race[Writer].b)
        s == StatusCb(family, master_fd, rxq, w.r8, r16, RaceCh, race[Poller].r,
                      StatusCell(RaceCh))
    IN <<s.r8[StatusCell(RaceCh)], s.ret>>

PollThenWrite ==
    LET s == StatusCb(family, master_fd, rxq, start.r8, r16, RaceCh, race[Poller].r,
                      StatusCell(RaceCh))
        w == IF family = Series0
             THEN txdatal_write_cb(family, master_fd, s.r8, r16, start.txq,
                                   start.tx_unread, RaceCh, race[Writer].b)
             ELSE udr_write_cb(family, master_fd, s.r8, r16, start.txq,
                               start.tx_unread, RaceCh, race[Writer].b)
    IN <<w.r8[StatusCell(RaceCh)], s.ret>>

(***************************************************************************)
(* The firmware's platform_serial_write_byte on UART SERIAL_UART_INDEX of  *)
(* a simulator whose pty was created, after platform_init: spin on the     *)
(* status cell until data-register-empty, then write the transmit cell.    *)
(***************************************************************************)
FwCh == SERIAL_UART_INDEX
FwFrame == UNCHANGED <<family, master_fd, r16, rxq, injected, consumed,
                       cellvars, tablevars, dispvars, racevars, stack, clk>>

\* fresh simulator with a pty, platform_init done
FwInit ==
    /\ SimInit
    /\ master_fd >= 0
    /\ AuxIdle

FwBoot ==
    /\ r8 = [n \in Reg8Names(family) |-> Reg8Default(n)]
    /\ r16 = [n \in Reg16Names(family) |-> 0]
    /\ fw.pc = "idle" /\ fw.sent = <<>> /\ txq = <<>>
    /\ platform_init

\* platform_serial_write_byte(b) is entered
FwCall(b) ==
    /\ fw.pc = "idle"
    /\ r8 # [n \in Reg8Names(family) |-> Reg8Default(n)]
    /\ Len(fw.sent) < MaxWrites
    /\ fw' = [fw EXCEPT !.pc = "wait", !.b = b]
    /\ UNCHANGED <<r8, txq, tx_unread, accepted, refused, validated_tx>>
    /\ FwFrame

\* while (!(USART_STATUS & DREIF)) { ; }   one evaluation, rand() % 100 = r
FwPoll(r) ==
    /\ fw.pc = "wait"
    /\ r8' = ReadStatus(FwCh, r).r8
    /\ fw' = [fw EXCEPT !.pc = IF DRE(ReadStatus(FwCh, r).ret) THEN "write" ELSE "wait"]
    /\ UNCHANGED <<txq, tx_unread, accepted, refused, validated_tx>>
    /\ FwFrame

\* USART_TXDATAL = b; and the call returns
FwWrite ==
    /\ fw.pc = "write"
    /\ LET res == WriteTx(FwCh, fw.b)
       IN /\ r8' = res.r8
          /\ txq' = res.txq
          /\ tx_unread' = IF res.sent THEN tx_unread + 1 ELSE tx_unread
          /\ refused' = IF res.lost THEN refused + 1 ELSE refused
    /\ accepted' = IF Valid(FwCh) THEN Append(accepted, fw.b) ELSE accepted
    /\ validated_tx' = IF Valid(FwCh) THEN validated_tx \cup {FwCh} ELSE validated_tx \ {FwCh}
    /\ fw' = [fw EXCEPT !.pc = "idle", !.sent = Append(@, fw.b)]
    /\ FwFrame

FwNext ==
    \/ FwBoot
    \/ \E b \in Bytes : FwCall(b)
    \/ \E r \in RandDraws : FwPoll(r)
    \/ FwWrite
    \/ ExternalReceive

\* the draw completes again and again; the firmware and the external side run
FwSpec ==
    /\ FwInit
    /\ [][FwNext]_vars
    /\ SF_vars(FwPoll(CompletingDraw))
    /\ WF_vars(FwWrite)
    /\ WF_vars(ExternalReceive)

(***************************************************************************)
(* The public Simulator::init_pty, called again after the constructor's    *)
(* call.  posix_openpt returns the lowest free descriptor, and init_pty    *)
(* closes none on success, so a new master is the old one plus one; the    *)
(* new pty holds no bytes, in either direction.  ok = FALSE is a failure   *)
(* of posix_openpt, grantpt, unlockpt or ptsname: nothing is assigned.     *)
(***************************************************************************)
init_pty(ok) ==
    /\ master_fd < 3 + MaxPtys - 1
    /\ IF ok
       THEN /\ master_fd' = IF master_fd < 0 THEN 3 ELSE master_fd + 1
            /\ rxq' = <<>>
            /\ tx_unread' = 0
       ELSE UNCHANGED <<master_fd, rxq, tx_unread>>
    /\ UNCHANGED <<aux, family, r8, r16, txq, injected, accepted, refused,
                   validated_tx, consumed>>

PtyNext ==
    \/ \E ok \in BOOLEAN : init_pty(ok)
    \/ \E i \in Channels, b \in Bytes : write_tx(i, b)
    \/ \E i \in Channels : read_rx(i)
    \/ \E b \in Bytes : ExternalSend(b)
    \/ ExternalReceive
    \/ platform_init

PtySpec == Init /\ [][PtyNext]_vars

(***************************************************************************)
(* The cell accesses of the wiring logic.  An access is <<cell, how>>:     *)
(* how is "raw" or "raw_store" for Reg8::raw()/raw_store(), which bypass   *)
(* the overrides, and "read" or "write" for the conversion and assignment  *)
(* operators, which invoke the override of the cell if one is installed.   *)
(* In the classic family the transmit and the receive cell are both UDRn.  *)
(***************************************************************************)
Plain == {"raw", "raw_store"}
CellOf(fam, k) == IF fam = Classic /\ k = "tx" THEN "rx" ELSE k

\* validate_configuration: every register is read with raw()
Acc_validate(fam) ==
    IF fam = Series0
    THEN <<<<"baud", "raw">>, <<"dir", "raw">>, <<"portmux", "raw">>,
           <<"ctrlb", "raw">>, <<"ctrlc", "raw">>, <<"clk", "raw">>>>
    ELSE <<<<"baud", "raw">>, <<"dir", "raw">>, <<"status", "raw">>,
           <<"ctrlb", "raw">>, <<"ctrlc", "raw">>>>

\* poll_pty_nonblocking: without a pty or a byte, and with one
Acc_poll(fam) ==
    {Acc_validate(fam),
     Acc_validate(fam) \o <<<<"status", "raw">>, <<"status", "raw_store">>>>}

\* txdatal_write_cb and udr_write_cb
Acc_write_cb(fam) ==
    {<<<<CellOf(fam, "tx"), "raw_store">>, <<"status", "raw">>, <<"status", "raw_store">>>>
        \o Acc_validate(fam)}

\* faulty variant: the value returned is read through the conversion operator
Acc_status_cb_ReadsThroughOperator(fam) ==
    {p \o Acc_validate(fam) \o t : p \in Acc_poll(fam),
        t \in {<<<<"status", "read">>>>,
               <<<<"status", "raw">>, <<"status", "read">>>>}}

\* status_read_cb and ucsra_read_cb: not validating; data-register-empty set;
\* and the completion event
Acc_status_cb(fam) ==
    {p \o Acc_validate(fam) \o t : p \in Acc_poll(fam),
        t \in {<<<<"status", "raw">>>>,
               <<<<"status", "raw">>, <<"status", "raw">>>>,
               <<<<"status", "raw">>,
                 <<"status", "raw">>, <<"status", "raw_store">>,
                 <<"status", "raw">>, <<"status", "raw_store">>,
                 <<"status", "raw">>>>}}

\* rxdatal_read_cb and udr_read_cb: not validating; the bridge empty; a byte taken
Acc_read_cb(fam) ==
    {<<<<"rx", "raw">>>> \o Acc_validate(fam)}
    \cup {<<<<"rx", "raw">>>> \o Acc_validate(fam) \o p : p \in Acc_poll(fam)}
    \cup {<<<<"rx", "raw">>>> \o Acc_validate(fam)
             \o (IF fam = Series0 THEN <<<<"rx", "raw_store">>>> ELSE <<>>)
             \o <<<<"status", "raw">>, <<"status", "raw_store">>>> \o p :
          p \in Acc_poll(fam)}

\* the override the constructor installed on the cell for this kind of access:
\* the paths of its body, or none
Override(fam, a) ==
    IF a = <<"status", "read">> THEN Acc_status_cb(fam)
    ELSE IF a = <<"rx", "read">> THEN Acc_read_cb(fam)
    ELSE IF a = <<CellOf(fam, "tx"), "write">> THEN Acc_write_cb(fam)
    ELSE {}

CallFrame == UNCHANGED <<simvars, cellvars, tablevars, dispvars, racevars, fw, clk>>

\* the firmware reads or writes a wired cell through the alias layer
CallBegin(k, how) ==
    /\ stack = <<>>
    /\ stack' = <<<<<<CellOf(family, k), how>>>>>>
    /\ CallFrame

\* the innermost function makes its next access, or returns
CallStep ==
    /\ stack # <<>>
    /\ LET d == Len(stack)
           top == stack[d]
       IN IF top = <<>>
          THEN stack' = SubSeq(stack, 1, d - 1)
          ELSE IF top[1][2] \in Plain \/ Override(family, top[1]) = {}
               THEN stack' = [stack EXCEPT ![d] = Tail(top)]
               ELSE /\ d < MaxDepth
                    /\ \E body \in Override(family, top[1]) :
                           stack' = Append([stack EXCEPT ![d] = Tail(top)], body)
    /\ CallFrame

CallNext ==
    \/ \E k \in {"status", "rx", "tx"}, how \in {"read", "write"} : CallBegin(k, how)
    \/ CallStep

\* a function that has an access to make, or has finished, goes on
CallSpec == Init /\ [][CallNext]_vars /\ WF_vars(CallStep)

(***************************************************************************)
(* The baud value for a build with clock f and baud rate b: what the       *)
(* validator expects, and what the two revisions of the firmware's         *)
(* platform_init write into the baud cell of UART SERIAL_UART_INDEX.       *)
(***************************************************************************)
Clocks == {1000000, 8000000, 16000000, 20000000}
Bauds == {9600, 10000, 19200, 115200, 250000}

\* validate_configuration: expected_baud
ExpectedBaud(fam, f, b) ==
    IF fam = Series0
    THEN U16((8 * f) \div (2 * b))
    ELSE U16(U16(f \div (16 * b)) - 1 + 65536)

\* platform_init of the generated-configuration revision: _bsel and _ubrr
GeneratedBaud(fam, f, b) ==
    IF fam = Series0
    THEN U16((8 * f) \div (2 * b))
    ELSE U16((f \div (16 * b)) - 1 + 65536)

\* MCTP_USART_SET_BAUD of the board-configuration revision, DA/DB and classic mode
MCTP_USART_SET_BAUD(fam, f, b) ==
    IF fam = Series0
    THEN U16((8 * f - b) \div (2 * b))
    ELSE U16((f \div (16 * b)) - 1 + 65536)

BaudFrame == UNCHANGED <<aux, family, master_fd, r8, rxq, txq, injected, accepted,
                         tx_unread, refused, validated_tx, consumed>>

\* USART_BAUD = _bsel;  or  USART_BAUD = _ubrr;
SetBaudGenerated ==
    /\ r16' = [r16 EXCEPT ![BaudCell(SERIAL_UART_INDEX)] =
                   GeneratedBaud(family, clk.f, clk.baud)]
    /\ BaudFrame

\* MCTP_USART_SET_BAUD(baud);
SetBaudBoard ==
    /\ r16' = [r16 EXCEPT ![BaudCell(SERIAL_UART_INDEX)] =
                   MCTP_USART_SET_BAUD(family, clk.f, clk.baud)]
    /\ BaudFrame

BaudInit ==
    /\ SimInit
    /\ CellIdle /\ TableInit /\ DispIdle /\ RaceIdle /\ FwIdle /\ CallIdle
    /\ clk \in [f : Clocks, baud : Bauds]

BaudNext == SetBaudGenerated \/ SetBaudBoard

BaudSpec == BaudInit /\ [][BaudNext]_vars

(***************************************************************************)
(* Properties.                                                             *)
(***************************************************************************)
IsPrefix(a, b) == Len(a) <= Len(b) /\ SubSeq(b, 1, Len(a)) = a
Status(idx) == r8[StatusCell(idx)]
BridgeHasByte == FIONREAD(master_fd, rxq) > 0

C3_FailingChannelSwallows ==
    [][\A i \in Channels, b \in Bytes :
          (~Valid(i) /\ write_tx(i, b)) => (txq' = txq /\ tx_unread' = tx_unread)]_vars

\* a byte went out on the validating channel, another was written to a failing
\* channel, stored there, and did not go out
C3_Witness ==
    /\ Len(txq) = 1
    /\ \E i \in Channels :
          /\ i \notin validated_tx
          /\ r8[TxCell(i)] \in Bytes
          /\ r8[TxCell(i)] # txq[1]
          /\ ~DRE(Status(i))

\* C4, as stated: on a channel that validated when the byte was written,
\* data-register-empty, once cleared by the write, is eventually set again.
C4_AsStated ==
    \A i \in Channels :
        (i \in validated_tx /\ ~DRE(Status(i))) ~> DRE(Status(i))

\* C4, amended: ... is eventually set again unless the channel stops validating:
\* the completion is decided by the validation at the poll, not at the write.
C4_DreReturnsWhileValid ==
    \A i \in Channels :
        (i \in validated_tx /\ ~DRE(Status(i))) ~> (DRE(Status(i)) \/ ~Valid(i))

\* the second validated write of a channel has completed
C4_Witness ==
    \E i \in Channels :
        /\ i \in validated_tx
        /\ Len(accepted) = 2
        /\ r8[TxCell(i)] = accepted[2]
        /\ accepted[1] # accepted[2]
        /\ DRE(Status(i))

\* C5, as stated: whatever channel is polled, the status value the poll returns
\* has receive-ready set if and only if the bridge holds an unread byte.
C5_AsStated ==
    \A i \in Channels, r \in RandDraws :
        RXC(ReadStatus(i, r).ret) <=> BridgeHasByte

\* the receive pin's direction bit is set (output)
RxPinIsOutput == Bit(r8[PORT_DIR], SERIAL_RX_PIN) = 1

\* C6, as stated: while the receive pin direction bit is left as output, no
\* read_rx takes a byte from the bridge and no status poll sets receive-ready.
C6_AsStated ==
    \A i \in Channels :
        RxPinIsOutput =>
            /\ ReadRx(i).rxq = rxq
            /\ \A r \in RandDraws : ~RXC(Status(i)) => ~RXC(ReadStatus(i, r).ret)

\* the checks of the validator as the claims word them
C9_BaudOk(i) ==
    IF family = Series0
    THEN /\ r16[BaudCell(i)] * (2 * SERIAL_BAUD) <= 8 * GENERATED_F_CPU
         /\ 8 * GENERATED_F_CPU < (r16[BaudCell(i)] + 1) * (2 * SERIAL_BAUD)
    ELSE /\ (r16[BaudCell(i)] + 1) * (16 * SERIAL_BAUD) <= GENERATED_F_CPU
         /\ GENERATED_F_CPU < (r16[BaudCell(i)] + 2) * (16 * SERIAL_BAUD)

C9_PinsOk ==
    /\ Bit(r8[PORT_DIR], SERIAL_RX_PIN) = 0
    /\ Bit(r8[PORT_DIR], SERIAL_TX_PIN) = 1

C9_OthersOk(i) ==
    IF family = Series0
    THEN /\ Bit(r8[PORTMUX_USARTROUTEA], 7) = 0
         /\ Bit(r8[PORTMUX_USARTROUTEA], 6) = 1
         /\ Bit(r8[USART_CTRLB(i)], 7) = 1
         /\ Bit(r8[USART_CTRLB(i)], 6) = 1
         /\ r8[USART_CTRLB(i)] % 8 = 0
         /\ r8[USART_CTRLC(i)] = 3
         /\ r8[CLKCTRL_MCLKCTRLB] = 0
    ELSE /\ r8[UCSRA(i)] % 4 = 0
         /\ (r8[UCSRB(i)] \div 4) % 8 = 6
         /\ r8[UCSRC(i)] = 6

\* C7, as stated: in the 0-series family a channel 3 whose baud cell holds 6667
\* and whose other cells are correct validates.
C7_AsStated ==
    (family = Series0 /\ r16[USART_BAUD(3)] = 6667 /\ C9_PinsOk /\ C9_OthersOk(3))
        => Valid(3)

\* C7, amended: the expected divisor is 6666 (the quotient truncated): with 6666
\* the channel validates and a byte 0x41 written to it is appended to the outgoing
\* stream when the pseudo-terminal takes it; with 6667 it does not validate and
\* the byte is swallowed.
C7_Divisor6666 ==
    (family = Series0 /\ C9_PinsOk /\ C9_OthersOk(3)) =>
        /\ r16[USART_BAUD(3)] = 6666 =>
              /\ Valid(3)
              /\ pty_write_ok(master_fd, tx_unread) => WriteTx(3, 65).txq = Append(txq, 65)
        /\ r16[USART_BAUD(3)] = 6667 =>
              /\ ~Valid(3)
              /\ WriteTx(3, 65).txq = txq

\* channel 3 holds 6666, validates, and the byte 0x41 written to it went out
C7_Witness ==
    /\ family = Series0
    /\ r16[USART_BAUD(3)] = 6666
    /\ Valid(3)
    /\ r8[USART_TXDATAL(3)] = 65
    /\ txq = <<65>>

\* C8: without a pseudo-terminal nothing is ever sent or received: the outgoing
\* stream stays empty, no status poll returns receive-ready, and no read_rx takes
\* a byte or returns anything but the stored value of its cell.
C8_NoPtyNoTraffic ==
    master_fd < 0 =>
        /\ txq = <<>>
        /\ consumed = <<>>
        /\ \A i \in Channels :
              /\ ~RXC(Status(i))
              /\ \A r \in RandDraws : ~RXC(ReadStatus(i, r).ret)
              /\ ReadRx(i).rxq = rxq
              /\ ReadRx(i).ret = r8[RxCell(i)]
              /\ \A b \in Bytes : WriteTx(i, b).txq = txq

\* no pseudo-terminal, and a validating channel was written and has completed
C8_Witness ==
    /\ master_fd < 0
    /\ refused >= 1
    /\ \E i \in validated_tx : r8[TxCell(i)] \in Bytes /\ DRE(Status(i))

\* C9: validate(idx) is true exactly when all checks of the active family hold.
C9_ValidateIsConjunction ==
    \A i \in Channels : Valid(i) <=> (C9_BaudOk(i) /\ C9_PinsOk /\ C9_OthersOk(i))

\* one channel validates while the other, with the same baud and enable bits,
\* fails a single check
C9_Witness ==
    /\ Valid(SERIAL_UART_INDEX)
    /\ ~Valid(0)
    /\ r16[BaudCell(0)] = r16[BaudCell(SERIAL_UART_INDEX)]
    /\ r8[CtrlBCell(0)] = r8[CtrlBCell(SERIAL_UART_INDEX)]

\* validate(idx) on the registers after the step
ValidNext(idx) == validate_configuration(family', r8', r16', idx)

\* C10, as stated: a register write that makes validate(i) fail leaves a
\* correctly configured channel j validating.
C10_AsStated ==
    [][\A i, j \in Channels :
          (i # j /\ Valid(i) /\ Valid(j) /\ ~ValidNext(i)) => ValidNext(j)]_vars

\* C11: a cell of either width with no override installed reads as the value of
\* the most recent write or raw_store, and as 0 when nothing was stored; and a
\* write of any edge value of the width is read back unchanged.
C11_PlainCellReadsLastStore ==
    (cell.read_cb = "none" /\ cell.write_cb = "none") =>
        /\ RegRead(cell) = shadow
        /\ \A v \in CellValues(cell.width) : RegRead(RegAssign(cell, v).cell) = v

\* a 16-bit cell without overrides holds a value above the 8-bit range that was
\* stored after an override had been installed and removed again
C11_Witness ==
    /\ cell.width = 16 /\ cell.read_cb = "none" /\ cell.write_cb = "none"
    /\ shadow = 65535 /\ Len(calls) = 1

\* C12: a write of v to a cell with a write override installed invokes the
\* override exactly once, with v, and the cell afterwards is what the override's
\* own action left: the write stores nothing itself.
C12_WriteOnlyInvokesOverride ==
    [][\A v \in CellValues(cell.width) :
          (cell.write_cb # "none" /\ CellWrite(v)) =>
              /\ calls' = Append(calls, v)
              /\ cell' = WriteCbCall(cell, v)]_vars

\* an override that stores nothing took a value the cell does not hold
C12_Witness ==
    /\ cell.write_cb = "drop" /\ Len(calls) = 1
    /\ calls[1] = 255 /\ raw(cell) = 1

\* C13: |= and &= on an 8-bit cell combine the operand with the raw stored
\* value, also when a read override answers something else, and deliver the
\* result exactly as a write of that result would: to the write override when
\* one is installed, otherwise into the stored value.
C13_CompoundFromRawThroughWrite ==
    [][\A v \in CellValues(cell.width) :
          /\ CellOr(v) => /\ cell' = RegAssign(cell, BitOr(raw(cell), v)).cell
                          /\ calls' = calls \o RegAssign(cell, BitOr(raw(cell), v)).inv
          /\ CellAnd(v) => /\ cell' = RegAssign(cell, BitAnd(raw(cell), v)).cell
                           /\ calls' = calls \o RegAssign(cell, BitAnd(raw(cell), v)).inv]_vars

\* under a read override that answers 254 for the stored 1, an |= of 128 handed
\* 129 to the write override
C13_Witness ==
    /\ cell.width = 8 /\ cell.read_cb = "complement" /\ cell.write_cb = "store"
    /\ calls = <<1, 129>> /\ raw(cell) = 129

Present(tb) == {n \in TableNames : tb[n] # NoCell}

\* C14: with one caller at a time the table is total and stable: a call for a
\* name never seen creates a cell of value 0, every call returns the cell the
\* first call for that name returned, a cell's stored value changes only by a
\* store through a returned reference, and the set of names only grows.
C14_TableTotalAndStable ==
    [][/\ Present(table.tab) \subseteq Present(table'.tab)
       /\ \A n \in Present(table.tab) : table'.tab[n] = table.tab[n]
       /\ \A n \in Present(table'.tab) \ Present(table.tab) :
              table'.cells[table'.tab[n]] = 0
       /\ \A n \in Present(table.tab) :
              table'.cells[table.tab[n]] # table.cells[table.tab[n]]
                  => \E t \in Threads, v \in StoreValues : TableStore(t, v)
       /\ \A t \in Threads :
              caller'[t].pc = "done" =>
                  /\ caller'[t].ret \in Nodes
                  /\ caller'[t].ret = table'.tab[caller'[t].arg]
                  /\ caller'[t].ret = table'.first[caller'[t].arg]]_vars

\* a second lookup of a name, from the other thread, returned the cell the
\* first lookup created, with the value stored in between
C14_Witness ==
    /\ caller[2].pc = "done" /\ caller[2].arg = "GPIOR1"
    /\ caller[2].ret = Node("GPIOR1", 1)
    /\ table.cells[Node("GPIOR1", 1)] = 255
    /\ caller[1].pc = "idle"
    /\ "GPIOR0" \in Present(table.tab)

\* C15, as stated: with two threads in cell(name) at the same time the table is
\* never read while another thread modifies it, and every caller that returned
\* holds the one cell the table has for its name.
C15_AsStated ==
    /\ ~table.raced
    /\ \A t \in Threads :
          caller[t].pc = "done" =>
              caller[t].ret \in Nodes /\ caller[t].ret = table.tab[caller[t].arg]

\* C16, as stated: every access of a cell's override pointer on the dispatch
\* path is made by the thread holding the cell's lock, and no override is
\* replaced between a dispatch's test of it and its call.
C16_AsStated == ~ovr.unlocked /\ ~ovr.swapped

BothDone == At(Writer, "done") /\ At(Poller, "done")

\* C17, as stated: when a transmit-data write and a status read of the same
\* channel run on two threads, the final status cell and the value the read
\* returned are those of one of the two sequential orders, so that neither the
\* write's data-register-empty clear nor the poll's receive-ready set is lost.
C17_AsStated ==
    BothDone => <<r8[StatusCell(RaceCh)], race[Poller].ret>> \in {WriteThenPoll, PollThenWrite}

\* C18: every write of a byte to a channel's transmit-data cell leaves the byte
\* in that cell and data-register-empty clear in the same channel's status
\* cell, whether the channel validates or not; the status read that follows
\* returns data-register-empty clear unless that read is a completion event
\* (the channel validates and the draw completes).
C18_WriteStoresAndClearsDre ==
    [][\A i \in Channels, b \in Bytes :
          write_tx(i, b) =>
              /\ r8'[TxCell(i)] = b
              /\ ~DRE(r8'[StatusCell(i)])
              /\ \A r \in RandDraws :
                     DRE(ReadStatus(i, r).ret)' => (Valid(i)' /\ r = CompletingDraw)]_vars

\* a byte was written on a channel that does not validate: it sits in the
\* cell, nothing went out, and data-register-empty is clear
C18_Witness ==
    /\ ~Valid(0) /\ r8[TxCell(0)] = 85 /\ ~DRE(r8[StatusCell(0)])
    /\ txq = <<>> /\ Valid(SERIAL_UART_INDEX)

TxcDreBits(v) == <<Bit(v, 6), Bit(v, 5)>>

\* C19: a status read changes transmit-complete or data-register-empty only on
\* a channel that validates and whose data-register-empty is clear at the read;
\* on a channel that fails validation, or whose data-register-empty is set,
\* both bits are after the read what they were before it.
C19_CompletionOnlyIfValidAndBusy ==
    [][\A i \in Channels, r \in RandDraws :
          read_status(i, r) =>
              /\ TxcDreBits(r8'[StatusCell(i)]) # TxcDreBits(r8[StatusCell(i)])
                     => (Valid(i) /\ ~DRE(r8[StatusCell(i)]))
              /\ (~Valid(i) \/ DRE(r8[StatusCell(i)]))
                     => TxcDreBits(ReadStatus(i, r).ret) = TxcDreBits(r8[StatusCell(i)])]_vars

\* the configured channel took a byte and a later status read completed it,
\* while the channel that fails validation still shows its byte as pending
C19_Witness ==
    /\ Valid(SERIAL_UART_INDEX) /\ accepted # <<>>
    /\ TxcDreBits(Status(SERIAL_UART_INDEX)) = <<1, 1>>
    /\ ~Valid(0) /\ ~DRE(Status(0))

\* the status cell as the poll of a status read leaves it, before the completion
Polled(i) == poll_pty_nonblocking(family, master_fd, rxq, r8, i)[StatusCell(i)]
Completes(i, r) == Valid(i) /\ ~DRE(Polled(i)) /\ r = CompletingDraw

\* C20, as stated: in both families a completion event in a status read sets
\* bit 6 (transmit-complete) and bit 5 (data-register-empty) of the status
\* cell and leaves every other bit of it as it was.
C20_AsStated ==
    [][\A i \in Channels, r \in RandDraws :
          (read_status(i, r) /\ Completes(i, r)) =>
              /\ TxcDreBits(r8'[StatusCell(i)]) = <<1, 1>>
              /\ \A k \in (0..7) \ {5, 6} :
                     Bit(r8'[StatusCell(i)], k) = Bit(Polled(i), k)]_vars

\* C21: a status read polls the bridge before it tests a flag and before it
\* takes the value to return: whenever the bridge holds an unread byte, the
\* status read of any channel, in the family of the build, returns a value with
\* receive-ready set, whatever the completion draw.
C21_PollBeforeFlags ==
    BridgeHasByte =>
        \A i \in Channels, r \in RandDraws : RXC(ReadStatus(i, r).ret)

\* one read that surfaces both transitions: the byte arrived and the pending
\* transmission completes, neither flag being set in the cell before the read
C21_Witness ==
    /\ BridgeHasByte /\ Valid(SERIAL_UART_INDEX)
    /\ ~RXC(Status(SERIAL_UART_INDEX)) /\ ~DRE(Status(SERIAL_UART_INDEX))
    /\ RXC(ReadStatus(SERIAL_UART_INDEX, CompletingDraw).ret)
    /\ DRE(ReadStatus(SERIAL_UART_INDEX, CompletingDraw).ret)

\* C22, as stated: a read of the receive-data cell of a validated channel takes
\* the oldest byte off the bridge, returns it and leaves it stored in the
\* receive-data cell; with no byte on the bridge it takes nothing and returns
\* the value stored in the cell.
C22_AsStated ==
    \A i \in Channels :
        Valid(i) =>
            LET res == ReadRx(i)
            IN  IF BridgeHasByte
                THEN /\ res.rxq = Tail(rxq)
                     /\ res.ret = Head(rxq)
                     /\ res.r8[RxCell(i)] = Head(rxq)
                ELSE /\ res.rxq = rxq
                     /\ res.ret = r8[RxCell(i)]

\* C23: when a read of the receive-data cell of a validated channel has taken a
\* byte, the channel's receive-ready bit is set exactly if the bridge still
\* holds an unread byte: clear after the only byte, set with a follow-on byte.
C23_ReadyIffByteRemains ==
    \A i \in Channels :
        (Valid(i) /\ BridgeHasByte) =>
            LET res == ReadRx(i)
            IN  RXC(res.r8[StatusCell(i)]) <=> FIONREAD(master_fd, res.rxq) > 0

\* the first of two bytes was consumed and the second is announced
C23_Witness ==
    /\ Valid(SERIAL_UART_INDEX) /\ Len(consumed) = 1 /\ Len(injected) = 2
    /\ Len(rxq) = 1 /\ RXC(Status(SERIAL_UART_INDEX))
    /\ ~RXC(ReadRx(SERIAL_UART_INDEX).r8[StatusCell(SERIAL_UART_INDEX)])

\* C24: on a channel that fails validation a read of the receive-data cell
\* consumes nothing: the bridge's unread bytes and the cell's stored value are
\* after the read what they were before, and the read returns the stored value.
C24_InvalidReadConsumesNothing ==
    \A i \in Channels :
        ~Valid(i) =>
            LET res == ReadRx(i)
            IN  /\ res.rxq = rxq
                /\ res.r8[RxCell(i)] = r8[RxCell(i)]
                /\ res.ret = r8[RxCell(i)]

\* a byte waits on the bridge, announced on a channel that fails validation
\* and holds a value of its own in the data cell
C24_Witness ==
    /\ ~Valid(0) /\ BridgeHasByte /\ RXC(Status(0))
    /\ r8[RxCell(0)] # Head(rxq)
    /\ ReadRx(0).ret = r8[RxCell(0)]

\* C25, as stated, in the family whose cell names the facade uses: for every
\* channel and in every state the facade's write_tx, read_status and read_rx
\* return the same value and leave the same cells and the same bridge as the
\* firmware's access of the channel's cell through the alias layer.
C25_AsStated ==
    family = Series0 =>
        \A i \in Channels :
            /\ \A b \in Bytes :
                   write_usart_tx(i, b) =
                       [r8 |-> WriteTx(i, b).r8, txq |-> WriteTx(i, b).txq, rxq |-> rxq]
            /\ \A r \in RandDraws :
                   read_usart_status(i, r) =
                       [r8 |-> ReadStatus(i, r).r8, rxq |-> rxq, ret |-> ReadStatus(i, r).ret]
            /\ read_usart_rxdatal(i) = ReadRx(i)

FiringDraws(i) == {r \in Draws : ReadStatus(i, r).r8[StatusCell(i)] # Polled(i)}
Busy(i) == Valid(i) /\ ~DRE(Polled(i))

\* C27, as stated: on a status poll of a validated channel with
\* data-register-empty clear the completion event fires for 5 of the 100 values
\* of the draw.
C27_AsStated ==
    \A i \in Channels : Busy(i) => Cardinality(FiringDraws(i)) = 5

\* C27, amended: on a status poll of a validated channel with
\* data-register-empty clear the completion event fires for exactly the draws
\* 96, 97, 98 and 99: 4 of the 100 values, a 4% chance per poll.
C27_FourDrawsOfHundred ==
    \A i \in Channels : Busy(i) => FiringDraws(i) = 96 .. 99

C27_Witness ==
    /\ Busy(SERIAL_UART_INDEX)
    /\ Cardinality(FiringDraws(SERIAL_UART_INDEX)) = 4
    /\ validated_tx = {SERIAL_UART_INDEX}

\* C28, as stated: the master descriptor is assigned at most once; once
\* init_pty has succeeded, no later operation, another call of init_pty
\* included, replaces it.
C28_AsStated ==
    [][master_fd >= 0 => master_fd' = master_fd]_vars

\* C29: every read or write of a wired cell completes in finitely many steps;
\* an installed override makes its accesses, to its own cell and to others,
\* with raw()/raw_store() only, so within a read or write no override is
\* entered from an override.
C29_OverridesRawOnly ==
    /\ [](Len(stack) <= 2)
    /\ [](\A d \in 2 .. Len(stack) : \A j \in 1 .. Len(stack[d]) : stack[d][j][2] \in Plain)
    /\ (stack # <<>>) ~> (stack = <<>>)

C29_Witness ==
    /\ Len(stack) = 2
    /\ stack[1] = <<>>
    /\ stack[2] = <<<<"status", "raw_store">>, <<"status", "raw">>>>

\* every cell holds what the constructor left in it
Fresh ==
    /\ r8 = [n \in Reg8Names(family) |-> Reg8Default(n)]
    /\ r16 = [n \in Reg16Names(family) |-> 0]

\* C30: in both families, when platform_init has run on a freshly constructed
\* simulator, validate(SERIAL_UART_INDEX) returns true: the values it writes,
\* with the constructor's defaults, pass every check of the validator.
C30_InitValidates ==
    [][(Fresh /\ platform_init) => Valid(SERIAL_UART_INDEX)']_vars

C30_Witness ==
    /\ family = Classic
    /\ r8 = PlatformInit8([n \in Reg8Names(family) |-> Reg8Default(n)])
    /\ r16 = PlatformInit16([n \in Reg16Names(family) |-> 0])
    /\ ValidateReasonClassic(family, r8, r16, SERIAL_UART_INDEX) = ""
    /\ fw.pc = "idle" /\ fw.sent = <<>>

\* one of the simulator's own operations, on any channel
OwnOperation ==
    \/ \E i \in Channels, b \in Bytes : write_tx(i, b)
    \/ \E i \in Channels, r \in RandDraws : read_status(i, r)
    \/ \E i \in Channels : read_rx(i)

\* C31, as stated: in either family no write_tx, read_status or read_rx, a
\* completion event included, changes the value of validate(idx) of any
\* channel.
C31_AsStated ==
    [][OwnOperation => \A j \in Channels : Valid(j)' = Valid(j)]_vars

\* C32, as stated: for every clock frequency and baud rate of the set, the
\* baud value the firmware's platform_init writes is the value the validator
\* expects, floor(8 f / (2 b)) in the newer family and floor(f / (16 b)) - 1
\* in the classic one, modulo 2^16.
C32_AsStated ==
    [][BaudNext => r16'[BaudCell(SERIAL_UART_INDEX)]
                       = ExpectedBaud(family, clk.f, clk.baud)]_vars

\* C33, as stated: a status read never removes a byte from the bridge; the
\* queue of unread bytes is after the read what it was before it, whatever its
\* length, both for the read through the status cell and for the read through
\* the indexed facade (in the family whose cell names the facade uses).
C33_AsStated ==
    /\ [][(\E i \in Channels, r \in RandDraws : read_status(i, r)) => rxq' = rxq]_vars
    /\ [](family = Series0 =>
             \A i \in Channels, r \in RandDraws : read_usart_status(i, r).rxq = rxq)

\* the status, receive-data and transmit-data cells of the channels other than i
OtherWired(i) ==
    UNION {{StatusCell(j), RxCell(j), TxCell(j)} : j \in Channels \ {i}}
OthersKept(i, R8) == \A n \in OtherWired(i) : R8[n] = r8[n]

C36_FreshDefaults ==
    /\ [](Fresh =>
             \A i \in Channels :
                 /\ DRE(Status(i)) /\ ~RXC(Status(i))
                 /\ ~Valid(i)
                 /\ \A b \in Bytes : ~WriteTx(i, b).sent /\ WriteTx(i, b).txq = txq)
    /\ [][\A i \in Channels, b \in Bytes :
             (Fresh /\ write_tx(i, b)) =>
                 (txq' = txq /\ tx_unread' = tx_unread /\ accepted' = accepted)]_vars

\* a byte was written to the unconfigured channel of a simulator with a pty:
\* it is in the cell, and nothing is on the bridge
C36_Witness ==
    /\ master_fd >= 0
    /\ r16 = [n \in Reg16Names(family) |-> 0]
    /\ r8[TxCell(SERIAL_UART_INDEX)] = 65
    /\ ~DRE(Status(SERIAL_UART_INDEX)) /\ DRE(Status(0))
    /\ txq = <<>> /\ tx_unread = 0
====
